---- MODULE Spec2Model ----
(***************************************************************************)
(* Bank Customer Churn Analysis dashboard (app.py).                        *)
(*                                                                         *)
(* The program is a Streamlit script: it loads a customer table (from     *)
(* Churn_Modelling.csv, read once and cached, or else from an uploaded     *)
(* file, without which the run stops), and                                 *)
(* every user interaction with a widget re-runs the whole script, which    *)
(* rebuilds the filtered table from the widget values, recomputes the KPI  *)
(* figures and the per-dimension churn series, and, when the Predict       *)
(* button was the interaction, a churn probability.                        *)
(*                                                                         *)
(* Representation.                                                         *)
(*  - a table is a sequence of records, one per CSV row, in file order;    *)
(*  - Balance is a real with two decimals in the data; it is held in       *)
(*    cents (BalScale units per currency unit), so that int() and the      *)
(*    comparison of a fractional balance with an integer slider value are  *)
(*    computed, not assumed;                                               *)
(*  - a churn rate (mean * 100) is the exact fraction [num, den];          *)
(*  - a pandas Series is a sequence of [label, value] in index order;      *)
(*  - the heuristic score is held in units of 1/ScoreScale, in which every *)
(*    coefficient of the formula is a whole number; a probability is the   *)
(*    number st.metric shows, in units of 1/ProbScale (tenths of a         *)
(*    percent): the logistic function is held by the scores at which the  *)
(*    shown number changes.                                                *)
(* The chart series (churn_by_age, counts_age, ...) are values the script   *)
(* computes from filtered_df in the same run and keeps nowhere else: they  *)
(* are state functions of filtered_df, not variables.  The chart           *)
(* visibility checkboxes (feat_age, ...) stay at their default (every      *)
(* chart shown).                                                           *)
(***************************************************************************)
EXTENDS Integers, Sequences, FiniteSets, TLC

VARIABLES
    df,                 \* the loaded table (app.py:138)
    fr, de, es,         \* geography checkboxes (app.py:233-235)
    active_only,        \* "Show Only Active Members" (app.py:247)
    male, female,       \* gender checkboxes (app.py:256-257)
    age_range,          \* <<lo, hi>> of the age slider (app.py:265)
    balance_range,      \* <<lo, hi>> of the balance slider (app.py:271)
    products_sel,       \* selection of the multiselect (app.py:276)
    filtered_df,        \* app.py:292-327
    total_customers, churned_customers, churn_rate,   \* app.py:330-332
    uploaded_model,     \* the file in the model uploader, by what it does (app.py:624)
    pred_age, pred_balance, pred_products,            \* app.py:626-639
    pred_active, pred_gender, pred_geo,               \* app.py:641-643
    pred,               \* <<outcome>> of the Predict handler when it ran in
                        \* this run, else <<>> (app.py:645-682)
    interactions,       \* number of reruns caused by a sidebar widget so far
    rerun_requested,    \* a run ended at st.rerun() and the next run has
                        \* not started (app.py:251)
    source              \* where load_data got the table of the last run:
                        \* "file" or "upload"; "none" when the run ended
                        \* at st.stop() and "raised" when it ended with
                        \* the exception of read_csv (app.py:128-136)

widgets == <<fr, de, es, active_only, male, female, age_range, balance_range,
             products_sel>>
outputs == <<filtered_df, total_customers, churned_customers, churn_rate>>
pred_widgets == <<uploaded_model, pred_age, pred_balance, pred_products,
                  pred_active, pred_gender, pred_geo>>
vars == <<df, widgets, outputs, pred_widgets, pred, interactions,
          rerun_requested, source>>

\* the last run had a table: line 138 was reached
HasTable == source \in {"file", "upload"}

-----------------------------------------------------------------------------
(* Bounds of the model *)

\* rows of a loaded table
MaxRows == 2
\* user interactions (reruns) in one session
MaxInteractions == 3

-----------------------------------------------------------------------------
(* Units *)

\* cents per currency unit: Balance has two decimals in Churn_Modelling.csv
BalScale == 100
\* score units per 1.0: the smallest coefficient step is 1/200000 (app.py:670)
ScoreScale == 200000
\* probability units per 1.0: the display keeps one decimal of a percentage
\* (app.py:682)
ProbScale == 1000

\* the missing value of a pandas column
NaN == "NaN"

-----------------------------------------------------------------------------
(* Generic helpers *)

Range(s) == {s[i] : i \in 1..Len(s)}

SetMin(S) == CHOOSE x \in S : \A y \in S : x <= y
SetMax(S) == CHOOSE x \in S : \A y \in S : y <= x

\* the elements of a set of integers in increasing order: sorted(...)
RECURSIVE SortedSeq(_)
SortedSeq(S) ==
    IF S = {} THEN <<>>
    ELSE LET m == SetMin(S) IN <<m>> \o SortedSeq(S \ {m})

\* a column of a table: t[name]
Col(t, name) == [i \in 1..Len(t) |-> t[i][name]]

\* number of rows of t with Exited = 1: t["Exited"].sum()
Churned(t) == Cardinality({i \in 1..Len(t) : t[i].Exited = 1})

\* the exact fraction n/d
Frac(n, d) == [num |-> n, den |-> d]

\* pandas mean of the 0/1 column Exited, times 100
MeanExitedPct(t) == Frac(100 * Churned(t), Len(t))


-----------------------------------------------------------------------------
(* The loaded table: load_data, app.py:124-138 *)

GeographyLabels == <<"France", "Germany", "Spain">>
GenderLabels == <<"Female", "Male">>

\* one row of Churn_Modelling.csv; CustomerId is the row's position in the file
Row(id, p) ==
    [CustomerId |-> id, Geography |-> p[1], Gender |-> p[2], Age |-> p[3],
     Balance |-> p[4], NumOfProducts |-> p[5], IsActiveMember |-> p[6],
     Exited |-> p[7]]

\* The customer profiles the tables are drawn from:
\* <<Geography, Gender, Age, Balance in cents, NumOfProducts, IsActiveMember, Exited>>.
\* They cover every geography and gender, both activity and churn values,
\* ages on, next to and away from the bin edges, a zero balance, a balance on
\* a bin edge and balances that are not whole numbers.
Profiles ==
    << <<"France",  "Female", 30,  6000000, 1, 1, 1>>,
       <<"France",  "Female", 30,  4000000, 1, 1, 0>>,
       <<"Germany", "Male",   18,        0, 2, 0, 0>>,
       <<"Spain",   "Male",   25,  5000000, 1, 0, 1>>,
       <<"Germany", "Female", 26, 12551082, 2, 1, 1>>,
       <<"Spain",   "Male",   61, 25089809, 3, 0, 0>> >>

\* every table of 1..MaxRows rows over Profiles, in every file order, a
\* profile any number of times
Tables ==
    UNION { { [i \in 1..n |-> Row(i, Profiles[f[i]])] :
              f \in [1..n -> DOMAIN Profiles] } :
            n \in 1..MaxRows }

\* The tables whose rows follow the order of Profiles: one file order of
\* each collection of rows.  The sidebar, the filters, the metrics and the
\* aggregations read the rows as a collection (unique values, min, max,
\* isin, groupby) and keep them in file order; only the defaults of the
\* prediction selectboxes are the first row's values (app.py:642-643).
TablesInProfileOrder ==
    UNION { { [i \in 1..n |-> Row(i, Profiles[f[i]])] :
              f \in { g \in [1..n -> DOMAIN Profiles] :
                          \A i \in 1..(n - 1) : g[i] <= g[i + 1] } } :
            n \in 1..MaxRows }

\* what the uploader of app.py:132 holds: nothing, a file read_csv reads as
\* the table t, or a file read_csv cannot read
NoUpload == [present |-> FALSE, content |-> <<>>]
UploadOf(t) == [present |-> TRUE, content |-> <<t>>]
UnreadableUpload == [present |-> TRUE, content |-> <<>>]

\* app.py:128-136: how load_data ends and the table it returns.  file is what
\* read_csv gets from Churn_Modelling.csv, <<table>>, or <<>> when it raises.
\* The exception of read_csv at line 136 is raised inside the handler and
\* nothing catches it.
load_data(file, uploaded) ==
    IF file # <<>> THEN [exit |-> "return", table |-> file[1]]
    ELSE IF ~uploaded.present THEN [exit |-> "stop", table |-> <<>>]
    ELSE IF uploaded.content = <<>> THEN [exit |-> "raise", table |-> <<>>]
    ELSE [exit |-> "return", table |-> uploaded.content[1]]

-----------------------------------------------------------------------------
(* Sidebar widgets: bounds, defaults and the values a user can pick *)

\* int(x) for a non-negative balance held in cents
IntOfBalance(b) == b \div BalScale

\* app.py:263-264
min_age(t) == SetMin({t[i].Age : i \in 1..Len(t)})
max_age(t) == SetMax({t[i].Age : i \in 1..Len(t)})
\* app.py:269-270
min_bal(t) == IntOfBalance(SetMin({t[i].Balance : i \in 1..Len(t)}))
max_bal(t) == IntOfBalance(SetMax({t[i].Balance : i \in 1..Len(t)}))
\* app.py:275
prod_options(t) == {t[i].NumOfProducts : i \in 1..Len(t)}

\* default value of the age slider, app.py:265
DefaultAgeRange(t) == <<min_age(t), max_age(t)>>
\* default value of the balance slider, app.py:271
DefaultBalanceRange(t) == <<min_bal(t), max_bal(t)>>

\* slider positions tried by the user, besides the two ends
AgeStops == {25}
BalanceStops == {50000}
\* step of the balance slider, app.py:271
BalanceStep == 1000

\* positions of the age slider (step 1 between min_age and max_age)
AgePositions(t) ==
    {v \in AgeStops \cup {min_age(t), max_age(t)} : min_age(t) <= v /\ v <= max_age(t)}
\* positions of the balance slider: min_bal + k * step, or the upper end
BalancePositions(t) ==
    {v \in BalanceStops \cup {min_bal(t), max_bal(t)} :
        /\ min_bal(t) <= v /\ v <= max_bal(t)
        /\ ((v - min_bal(t)) % BalanceStep = 0 \/ v = max_bal(t))}

-----------------------------------------------------------------------------
(* Apply filters, app.py:280-327 *)

\* Geographies without the fallback of app.py:289-290
GeographiesNoFallback(t, france, germany, spain) ==
    (IF france THEN {"France"} ELSE {})
    \cup (IF germany THEN {"Germany"} ELSE {})
    \cup (IF spain THEN {"Spain"} ELSE {})

\* app.py:281-290: the ticked geographies, or every geography of the table
\* when none is ticked
Geographies(t, france, germany, spain) ==
    LET ticked == (IF france THEN {"France"} ELSE {})
                  \cup (IF germany THEN {"Germany"} ELSE {})
                  \cup (IF spain THEN {"Spain"} ELSE {})
    IN  IF ticked = {} THEN {t[i].Geography : i \in 1..Len(t)} ELSE ticked

\* GeographyFilter that keeps every row when no row of t has a ticked geography
GeographyFilterAllWhenNoMatch(t, france, germany, spain) ==
    LET g == Geographies(t, france, germany, spain)
        kept == SelectSeq(t, LAMBDA r : r.Geography \in g)
    IN  IF kept = <<>> THEN t ELSE kept

\* app.py:292
GeographyFilter(t, france, germany, spain) ==
    LET g == Geographies(t, france, germany, spain)
    IN  SelectSeq(t, LAMBDA r : r.Geography \in g)

\* ActiveFilter with the active-only flag ignored
ActiveFilterIgnored(t, only) == t

\* app.py:294-295
ActiveFilter(t, only) ==
    IF only THEN SelectSeq(t, LAMBDA r : r.IsActiveMember = 1) ELSE t

\* app.py:297-303
GenderFilter(t, show_male, show_female) ==
    LET genders == (IF show_male THEN {"Male"} ELSE {})
                   \cup (IF show_female THEN {"Female"} ELSE {})
    IN  IF genders # {} THEN SelectSeq(t, LAMBDA r : r.Gender \in genders) ELSE t

\* AgeFilter with the upper bound excluded
AgeFilterExclusiveUpper(t, ar) ==
    SelectSeq(t, LAMBDA r : r.Age >= ar[1] /\ r.Age < ar[2])

\* app.py:306-312
AgeFilter(t, ar) ==
    SelectSeq(t, LAMBDA r : r.Age >= ar[1] /\ r.Age <= ar[2])

\* BalanceFilter with the two bounds put in order first
BalanceFilterOrdersBounds(t, br) ==
    LET lo == IF br[1] <= br[2] THEN br[1] ELSE br[2]
        hi == IF br[1] <= br[2] THEN br[2] ELSE br[1]
    IN  SelectSeq(t, LAMBDA r : /\ r.Balance >= lo * BalScale
                                /\ r.Balance <= hi * BalScale)

\* app.py:314-320: the slider values are whole currency units
BalanceFilter(t, br) ==
    SelectSeq(t, LAMBDA r : /\ r.Balance >= br[1] * BalScale
                            /\ r.Balance <= br[2] * BalScale)

\* app.py:322-327
ProductFilter(t, ps) ==
    IF ps # {} THEN SelectSeq(t, LAMBDA r : r.NumOfProducts \in ps) ELSE t

\* the whole chain, in the program's order
ApplyFilters(t, france, germany, spain, only, show_male, show_female, ar, br, ps) ==
    ProductFilter(
      BalanceFilter(
        AgeFilter(
          GenderFilter(
            ActiveFilter(GeographyFilter(t, france, germany, spain), only),
            show_male, show_female),
          ar),
        br),
      ps)

\* ChurnRate without the guard on an empty table
ChurnRateUnguarded(f) == Frac(Churned(f) * 100, Len(f))

\* app.py:330-332
TotalCustomers(f) == Len(f)
ChurnedCustomers(f) == Churned(f)
ChurnRate(f) ==
    IF TotalCustomers(f) > 0
    THEN Frac(ChurnedCustomers(f) * 100, TotalCustomers(f))
    ELSE Frac(0, 1)

-----------------------------------------------------------------------------
(* Aggregations, app.py:141-176 and the chart code that calls them *)

\* app.py:144-145: the finite bin edges; the last bin is open above (np.inf)
AgeBins == <<18, 25, 35, 45, 60>>
AgeLabels == <<"18-25", "26-35", "36-45", "46-60", "60+">>
\* app.py:153-154, in cents
BalanceBins == <<0, 50000 * BalScale, 100000 * BalScale, 150000 * BalScale,
                 200000 * BalScale>>
BalanceLabels == <<"0-50K", "50-100K", "100-150K", "150-200K", "200K+">>
\* app.py:575
ActiveLabels == <<"Inactive", "Active">>

\* pd.cut with right=False: bin i is [bins[i], bins[i+1])
CutLeftClosed(v, bins, labels) ==
    LET below == Cardinality({i \in 1..Len(bins) : bins[i] <= v})
    IN  IF below = 0 THEN NaN ELSE labels[below]

\* pd.cut(v, bins, labels) with pandas' defaults right=True and
\* include_lowest=False: bin i is (bins[i], bins[i+1]], the last one
\* (bins[n], inf); a value in no bin is NaN. The edges increase, so the bin
\* of v is the number of edges strictly below v
Cut(v, bins, labels) ==
    LET below == Cardinality({i \in 1..Len(bins) : bins[i] < v})
    IN  IF below = 0 THEN NaN ELSE labels[below]

\* one entry of a Series
Entry(l, v) == [label |-> l, value |-> v]

\* the rows of t at the positions where the column keys holds k
RowsWithKey(t, keys, k) ==
    LET at == {i \in 1..Len(t) : keys[i] = k}
        pos == SortedSeq(at)
    IN  [j \in 1..Len(pos) |-> t[pos[j]]]

\* groupby(keys)["Exited"].mean() * 100, keys being the grouping column of
\* t, over the values listed in index (in that order) that occur in the
\* column: pandas reports observed groups only
GroupMean(t, keys, index) ==
    LET present == SelectSeq(index, LAMBDA k : \E i \in 1..Len(t) : keys[i] = k)
    IN  [j \in 1..Len(present) |->
            Entry(present[j], MeanExitedPct(RowsWithKey(t, keys, present[j])))]

\* keys.value_counts().reindex(index).fillna(0).astype(int)
ValueCounts(keys, index) ==
    [j \in 1..Len(index) |->
        Entry(index[j], Cardinality({i \in 1..Len(keys) : keys[i] = index[j]}))]

\* app.py:146, 410: pd.cut(df["Age"], bins, labels)
AgeGroup(t) == [i \in 1..Len(t) |-> Cut(t[i].Age, AgeBins, AgeLabels)]
\* app.py:155, 450: pd.cut(df["Balance"], balance_bins, balance_labels)
BalanceGroup(t) ==
    [i \in 1..Len(t) |-> Cut(t[i].Balance, BalanceBins, BalanceLabels)]

\* app.py:141-147
get_churn_by_age(t) == GroupMean(t, AgeGroup(t), AgeLabels)
\* app.py:150-156
get_churn_by_balance(t) == GroupMean(t, BalanceGroup(t), BalanceLabels)
\* app.py:159-161: groupby sorts the keys
get_geo_churn(t) == GroupMean(t, Col(t, "Geography"), GeographyLabels)
\* app.py:164-166
get_product_churn(t) ==
    GroupMean(t, Col(t, "NumOfProducts"), SortedSeq(prod_options(t)))
\* app.py:169-171
get_gender_churn(t) == GroupMean(t, Col(t, "Gender"), GenderLabels)

\* get_active_churn without .reindex([0, 1]).fillna(0)
get_active_churn_observed(t) ==
    GroupMean(t, Col(t, "IsActiveMember"), <<0, 1>>)

\* app.py:174-176: .reindex([0, 1]).fillna(0) * 100
get_active_churn(t) ==
    [j \in 1..2 |->
        LET g == SelectSeq(t, LAMBDA r : r.IsActiveMember = j - 1)
        IN  Entry(j - 1, IF Len(g) > 0 THEN MeanExitedPct(g) ELSE Frac(0, 1))]

\* app.py:410, 417
CountsAge(f) == ValueCounts(AgeGroup(f), AgeLabels)
\* app.py:450, 458
CountsBalance(f) == ValueCounts(BalanceGroup(f), BalanceLabels)
\* the index of a Series
Index(series) == [j \in 1..Len(series) |-> series[j].label]
\* app.py:488
CountsGeo(f) == ValueCounts(Col(f, "Geography"), Index(get_geo_churn(f)))
\* app.py:559
CountsGender(f) == ValueCounts(Col(f, "Gender"), Index(get_gender_churn(f)))
\* ActiveLabelOf with the mapping of 0 left out
ActiveLabelOfMissingInactive(r) == IF r.IsActiveMember = 1 THEN "Active" ELSE NaN

\* app.py:584: IsActiveMember mapped to "Active"/"Inactive", counted, reindexed
ActiveLabelOf(r) == IF r.IsActiveMember = 1 THEN "Active" ELSE "Inactive"
CountsActive(f) ==
    ValueCounts([i \in 1..Len(f) |-> ActiveLabelOf(f[i])], ActiveLabels)

\* app.py:581-589: the pie pairs the rates, the labels and the counts by
\* position
ActivePie(f) ==
    [j \in 1..Len(ActiveLabels) |->
        [label |-> ActiveLabels[j], rate |-> get_active_churn(f)[j].value,
         count |-> CountsActive(f)[j].value]]

\* app.py:423-427, 454-464: a trace pairs x, y and customdata by position:
\* point j has the label and the rate of entry j of the rates and the count
\* of entry j of the counts (customdata beyond the last point is not drawn)
TracePoints(rates, counts) ==
    [j \in 1..Len(rates) |->
        [label |-> rates[j].label, rate |-> rates[j].value,
         count |-> counts[j].value]]
\* app.py:423-427
AgeBars(f) == TracePoints(get_churn_by_age(f), CountsAge(f))
\* app.py:454-464
BalancePoints(f) == TracePoints(get_churn_by_balance(f), CountsBalance(f))

-----------------------------------------------------------------------------
(* The tables an aggregation call touches, app.py:141-176.  A DataFrame is a
   frame: its column index and its rows.  A call works on a heap of frames:
   object 1 is the frame the caller passed, df.copy() allocates a further
   object, and a column assignment writes the object its target names. *)

\* the columns of Churn_Modelling.csv the script reads, in file order
LoadedColumns ==
    <<"CustomerId", "Geography", "Gender", "Age", "Balance", "NumOfProducts",
      "IsActiveMember", "Exited">>

\* the frame of a table as read_csv and the filters build it
Frame(t) == [columns |-> LoadedColumns, rows |-> t]

\* df[name] = col on one frame: a new name is appended to the column index,
\* also when the frame has no rows, and every row gets the value
WithColumn(f, name, col) ==
    [columns |-> IF \E j \in 1..Len(f.columns) : f.columns[j] = name
                 THEN f.columns
                 ELSE Append(f.columns, name),
     rows |-> [i \in 1..Len(f.rows) |->
                 [c \in DOMAIN f.rows[i] \cup {name} |->
                     IF c = name THEN col[i] ELSE f.rows[i][c]]]]

\* obj[name] = col in a heap
AssignColumn(heap, obj, name, col) ==
    [heap EXCEPT ![obj] = WithColumn(heap[obj], name, col)]

\* get_churn_by_age with df2 = df instead of df2 = df.copy()
get_churn_by_age_heap_aliased(f) ==
    LET heap == <<f>>
        df2 == 1
    IN  AssignColumn(heap, df2, "AgeGroup", AgeGroup(heap[df2].rows))

\* app.py:143-146: df2 = df.copy(); df2["AgeGroup"] = pd.cut(df2["Age"], ...)
get_churn_by_age_heap(f) ==
    LET heap == <<f, f>>
        df2 == 2
    IN  AssignColumn(heap, df2, "AgeGroup", AgeGroup(heap[df2].rows))

\* app.py:152-155: df2 = df.copy(); df2["BalanceGroup"] = pd.cut(...)
get_churn_by_balance_heap(f) ==
    LET heap == <<f, f>>
        df2 == 2
    IN  AssignColumn(heap, df2, "BalanceGroup", BalanceGroup(heap[df2].rows))

\* app.py:161, 166, 171, 176: groupby(...)["Exited"].mean() builds its result
\* from df, allocates no table and assigns nothing
get_geo_churn_heap(f) == <<f>>
get_product_churn_heap(f) == <<f>>
get_gender_churn_heap(f) == <<f>>
get_active_churn_heap(f) == <<f>>

\* df.columns
ColumnsOf(f) == f.columns

\* app.py:357-359: to_csv(index=False): the header line, then one line per
\* row with the row's values in column order
convert_df_to_csv(f) ==
    LET cols == ColumnsOf(f)
    IN  [header |-> cols,
         lines |-> [i \in 1..Len(f.rows) |->
                      [j \in 1..Len(cols) |-> f.rows[i][cols[j]]]]]

-----------------------------------------------------------------------------
(* Predict Churn, app.py:645-682 *)

\* HeuristicScore with no term for an active member
HeuristicScoreActiveNeutral(age, balance, products, active, gender, geo) ==
      (age - 40) * ((2 * ScoreScale) \div 100)
    + (balance - 50000) * (ScoreScale \div 200000)
    + (products - 1) * ((15 * ScoreScale) \div 100)
    + (IF ~active THEN (4 * ScoreScale) \div 10 ELSE 0)
    + (IF geo = "Germany" THEN ScoreScale \div 10 ELSE 0)
    + (IF gender = "Male" THEN (5 * ScoreScale) \div 100 ELSE 0)

\* app.py:666-678: the heuristic score, in units of 1/ScoreScale
HeuristicScore(age, balance, products, active, gender, geo) ==
      (age - 40) * ((2 * ScoreScale) \div 100)
    + (balance - 50000) * (ScoreScale \div 200000)
    + (products - 1) * ((15 * ScoreScale) \div 100)
    + (IF ~active THEN (4 * ScoreScale) \div 10 ELSE -(ScoreScale \div 10))
    + (IF geo = "Germany" THEN ScoreScale \div 10 ELSE 0)
    + (IF gender = "Male" THEN (5 * ScoreScale) \div 100 ELSE 0)

\* app.py:679, 682: st.metric shows f"{prob*100:.1f}%" for
\* prob = 1 / (1 + np.exp(-score)).  The shown number grows with the score
\* in steps of a tenth of a percent; ShownSteps[k] is the least score, in
\* units of 1/ScoreScale, for which k tenths of a percent are shown:
\* the least whole number not below ScoreScale * ln((2k - 1) / (2001 - 2k)).
\* No step is within 0.0001 units of a whole score, so the rounding of the
\* score, of np.exp and of the format in floating point moves no step.
ShownSteps ==
    <<
       -1520080, -1300157, -1197792, -1130297, -1079833, -1039498, -1005886, -977064,
       -951830, -929383, -909164, -890768, -873889, -858294, -843800, -830258,
       -817551, -805579, -794262, -783529, -773323, -763593, -754296, -745394,
       -736855, -728649, -720750, -713136, -705787, -698684, -691810, -685152,
       -678695, -672427, -666337, -660415, -654652, -649038, -643567, -638230,
       -633022, -627935, -622964, -618103, -613349, -608695, -604137, -599672,
       -595295, -591003, -586792, -582659, -578602, -574617, -570702, -566854,
       -563071, -559350, -555689, -552087, -548540, -545049, -541610, -538221,
       -534883, -531592, -528347, -525148, -521992, -518879, -515806, -512774,
       -509781, -506825, -503907, -501024, -498176, -495361, -492580, -489831,
       -487114, -484427, -481770, -479143, -476543, -473972, -471427, -468909,
       -466417, -463951, -461509, -459091, -456696, -454325, -451977, -449651,
       -447346, -445063, -442800, -440558, -438336, -436133, -433950, -431785,
       -429639, -427510, -425400, -423307, -421231, -419171, -417128, -415102,
       -413091, -411095, -409115, -407150, -405200, -403264, -401342, -399434,
       -397540, -395660, -393793, -391939, -390097, -388269, -386453, -384649,
       -382857, -381077, -379309, -377552, -375806, -374072, -372348, -370635,
       -368933, -367242, -365560, -363889, -362228, -360577, -358935, -357303,
       -355681, -354068, -352464, -350869, -349282, -347705, -346136, -344576,
       -343025, -341481, -339946, -338419, -336900, -335389, -333886, -332390,
       -330902, -329421, -327948, -326482, -325023, -323572, -322127, -320689,
       -319259, -317835, -316417, -315006, -313602, -312204, -310812, -309427,
       -308048, -306675, -305308, -303947, -302592, -301243, -299900, -298562,
       -297230, -295903, -294582, -293267, -291957, -290652, -289352, -288058,
       -286769, -285485, -284206, -282932, -281662, -280398, -279139, -277884,
       -276634, -275389, -274148, -272912, -271680, -270453, -269230, -268012,
       -266798, -265588, -264382, -263181, -261984, -260791, -259602, -258417,
       -257236, -256059, -254885, -253716, -252550, -251389, -250231, -249077,
       -247926, -246779, -245636, -244496, -243360, -242227, -241098, -239972,
       -238849, -237730, -236614, -235502, -234392, -233286, -232184, -231084,
       -229988, -228894, -227804, -226717, -225632, -224551, -223473, -222398,
       -221325, -220256, -219189, -218125, -217064, -216006, -214950, -213898,
       -212848, -211800, -210755, -209713, -208674, -207637, -206603, -205571,
       -204541, -203515, -202490, -201468, -200449, -199432, -198417, -197405,
       -196395, -195387, -194381, -193378, -192377, -191379, -190382, -189388,
       -188396, -187406, -186418, -185433, -184449, -183468, -182488, -181511,
       -180536, -179562, -178591, -177622, -176654, -175689, -174725, -173763,
       -172804, -171846, -170890, -169935, -168983, -168033, -167084, -166137,
       -165191, -164248, -163306, -162366, -161428, -160491, -159556, -158623,
       -157691, -156761, -155832, -154905, -153980, -153056, -152134, -151214,
       -150294, -149377, -148461, -147546, -146633, -145721, -144811, -143902,
       -142995, -142089, -141184, -140281, -139379, -138479, -137580, -136682,
       -135786, -134891, -133997, -133104, -132213, -131323, -130434, -129547,
       -128660, -127775, -126891, -126009, -125127, -124247, -123368, -122490,
       -121613, -120737, -119863, -118989, -118117, -117246, -116376, -115506,
       -114638, -113771, -112905, -112041, -111177, -110314, -109452, -108591,
       -107731, -106872, -106014, -105157, -104301, -103446, -102591, -101738,
       -100886, -100034, -99183, -98334, -97485, -96637, -95790, -94943,
       -94098, -93253, -92409, -91566, -90724, -89882, -89042, -88202,
       -87363, -86524, -85687, -84850, -84013, -83178, -82343, -81509,
       -80676, -79843, -79011, -78180, -77349, -76519, -75690, -74861,
       -74033, -73206, -72379, -71553, -70728, -69903, -69078, -68254,
       -67431, -66608, -65786, -64965, -64144, -63323, -62503, -61684,
       -60865, -60047, -59229, -58411, -57594, -56778, -55962, -55146,
       -54331, -53517, -52702, -51889, -51075, -50262, -49450, -48638,
       -47826, -47015, -46204, -45393, -44583, -43773, -42964, -42155,
       -41346, -40538, -39730, -38922, -38114, -37307, -36500, -35694,
       -34888, -34082, -33276, -32471, -31665, -30861, -30056, -29252,
       -28447, -27643, -26840, -26036, -25233, -24430, -23627, -22824,
       -22022, -21219, -20417, -19615, -18813, -18012, -17210, -16409,
       -15607, -14806, -14005, -13204, -12403, -11603, -10802, -10002,
       -9201, -8401, -7600, -6800, -6000, -5200, -4400, -3600,
       -2800, -2000, -1200, -400, 401, 1201, 2001, 2801,
       3601, 4401, 5201, 6001, 6801, 7601, 8402, 9202,
       10003, 10803, 11604, 12404, 13205, 14006, 14807, 15608,
       16410, 17211, 18013, 18814, 19616, 20418, 21220, 22023,
       22825, 23628, 24431, 25234, 26037, 26841, 27644, 28448,
       29253, 30057, 30862, 31666, 32472, 33277, 34083, 34889,
       35695, 36501, 37308, 38115, 38923, 39731, 40539, 41347,
       42156, 42965, 43774, 44584, 45394, 46205, 47016, 47827,
       48639, 49451, 50263, 51076, 51890, 52703, 53518, 54332,
       55147, 55963, 56779, 57595, 58412, 59230, 60048, 60866,
       61685, 62504, 63324, 64145, 64966, 65787, 66609, 67432,
       68255, 69079, 69904, 70729, 71554, 72380, 73207, 74034,
       74862, 75691, 76520, 77350, 78181, 79012, 79844, 80677,
       81510, 82344, 83179, 84014, 84851, 85688, 86525, 87364,
       88203, 89043, 89883, 90725, 91567, 92410, 93254, 94099,
       94944, 95791, 96638, 97486, 98335, 99184, 100035, 100887,
       101739, 102592, 103447, 104302, 105158, 106015, 106873, 107732,
       108592, 109453, 110315, 111178, 112042, 112906, 113772, 114639,
       115507, 116377, 117247, 118118, 118990, 119864, 120738, 121614,
       122491, 123369, 124248, 125128, 126010, 126892, 127776, 128661,
       129548, 130435, 131324, 132214, 133105, 133998, 134892, 135787,
       136683, 137581, 138480, 139380, 140282, 141185, 142090, 142996,
       143903, 144812, 145722, 146634, 147547, 148462, 149378, 150295,
       151215, 152135, 153057, 153981, 154906, 155833, 156762, 157692,
       158624, 159557, 160492, 161429, 162367, 163307, 164249, 165192,
       166138, 167085, 168034, 168984, 169936, 170891, 171847, 172805,
       173764, 174726, 175690, 176655, 177623, 178592, 179563, 180537,
       181512, 182489, 183469, 184450, 185434, 186419, 187407, 188397,
       189389, 190383, 191380, 192378, 193379, 194382, 195388, 196396,
       197406, 198418, 199433, 200450, 201469, 202491, 203516, 204542,
       205572, 206604, 207638, 208675, 209714, 210756, 211801, 212849,
       213899, 214951, 216007, 217065, 218126, 219190, 220257, 221326,
       222399, 223474, 224552, 225633, 226718, 227805, 228895, 229989,
       231085, 232185, 233287, 234393, 235503, 236615, 237731, 238850,
       239973, 241099, 242228, 243361, 244497, 245637, 246780, 247927,
       249078, 250232, 251390, 252551, 253717, 254886, 256060, 257237,
       258418, 259603, 260792, 261985, 263182, 264383, 265589, 266799,
       268013, 269231, 270454, 271681, 272913, 274149, 275390, 276635,
       277885, 279140, 280399, 281663, 282933, 284207, 285486, 286770,
       288059, 289353, 290653, 291958, 293268, 294583, 295904, 297231,
       298563, 299901, 301244, 302593, 303948, 305309, 306676, 308049,
       309428, 310813, 312205, 313603, 315007, 316418, 317836, 319260,
       320690, 322128, 323573, 325024, 326483, 327949, 329422, 330903,
       332391, 333887, 335390, 336901, 338420, 339947, 341482, 343026,
       344577, 346137, 347706, 349283, 350870, 352465, 354069, 355682,
       357304, 358936, 360578, 362229, 363890, 365561, 367243, 368934,
       370636, 372349, 374073, 375807, 377553, 379310, 381078, 382858,
       384650, 386454, 388270, 390098, 391940, 393794, 395661, 397541,
       399435, 401343, 403265, 405201, 407151, 409116, 411096, 413092,
       415103, 417129, 419172, 421232, 423308, 425401, 427511, 429640,
       431786, 433951, 436134, 438337, 440559, 442801, 445064, 447347,
       449652, 451978, 454326, 456697, 459092, 461510, 463952, 466418,
       468910, 471428, 473973, 476544, 479144, 481771, 484428, 487115,
       489832, 492581, 495362, 498177, 501025, 503908, 506826, 509782,
       512775, 515807, 518880, 521993, 525149, 528348, 531593, 534884,
       538222, 541611, 545050, 548541, 552088, 555690, 559351, 563072,
       566855, 570703, 574618, 578603, 582660, 586793, 591004, 595296,
       599673, 604138, 608696, 613350, 618104, 622965, 627936, 633023,
       638231, 643568, 649039, 654653, 660416, 666338, 672428, 678696,
       685153, 691811, 698685, 705788, 713137, 720751, 728650, 736856,
       745395, 754297, 763594, 773324, 783530, 794263, 805580, 817552,
       830259, 843801, 858295, 873890, 890769, 909165, 929384, 951831,
       977065, 1005887, 1039499, 1079834, 1130298, 1197793, 1300158, 1520081 >>

\* app.py:679, 682: the probability of the heuristic as st.metric shows it,
\* in units of 1/ProbScale
Logistic(score) ==
    Cardinality({k \in 1..ProbScale : ShownSteps[k] <= score})

\* app.py:681
Clamp(p) == IF p < 0 THEN 0 ELSE IF p > ProbScale THEN ProbScale ELSE p

\* What the uploaded artifact does when it is used (app.py:648-662):
\*   none      no file was uploaded
\*   unpickle  pickle.loads raises
\*   proba     predict_proba returns out
\*   predict   predict_proba raises, predict returns out
\*   raises    predict_proba and predict both raise
ModelOutputs == {730, 1500}
Artifacts ==
    {[kind |-> k, out |-> 0] : k \in {"none", "unpickle", "raises"}}
    \cup {[kind |-> k, out |-> o] : k \in {"proba", "predict"}, o \in ModelOutputs}

\* ModelProb with a failed call scored as 0 instead of leaving prob unset
ModelProbFailureScoresZero(artifact) ==
    IF artifact.kind \in {"none", "unpickle"} THEN <<>> ELSE <<artifact.out>>

\* app.py:647-662: prob after the artifact was tried: <<p>>, or <<>> when it
\* is still None
ModelProb(artifact) ==
    IF artifact.kind \in {"proba", "predict"} THEN <<artifact.out>> ELSE <<>>

\* app.py:661-662: st.error is shown when the artifact failed
ModelError(artifact) == artifact.kind \in {"unpickle", "raises"}

\* the whole handler: the record of what it did; score is <<s>> when the
\* heuristic was evaluated and <<>> otherwise
PredictChurn(in, artifact) ==
    LET prob1 == ModelProb(artifact)
        fallback == prob1 = <<>>
        score == HeuristicScore(in.age, in.balance, in.products, in.active,
                                in.gender, in.geo)
        prob2 == IF fallback THEN Logistic(score) ELSE prob1[1]
    IN  [input |-> in, artifact |-> artifact.kind, error |-> ModelError(artifact),
         fallback |-> fallback, score |-> IF fallback THEN <<score>> ELSE <<>>,
         prob |-> Clamp(prob2)]

\* int(median) of a column given as a sorted sequence of integers
MedianOf(sorted) ==
    LET n == Len(sorted)
    IN  IF n % 2 = 1 THEN sorted[(n + 1) \div 2]
        ELSE (sorted[n \div 2] + sorted[n \div 2 + 1]) \div 2

\* a column (a sequence of integers) in increasing order, repetitions kept
RECURSIVE SortedColumn(_)
SortedColumn(col) ==
    IF col = <<>> THEN <<>>
    ELSE LET m == SetMin(Range(col))
             j == CHOOSE i \in 1..Len(col) : col[i] = m
             rest == [i \in 1..(Len(col) - 1) |->
                         IF i < j THEN col[i] ELSE col[i + 1]]
         IN  <<m>> \o SortedColumn(rest)

\* defaults of the prediction widgets, app.py:627, 632, 637, 642, 643
DefaultPredAge(t) == MedianOf(SortedColumn([i \in 1..Len(t) |-> t[i].Age]))
DefaultPredBalance(t) ==
    IntOfBalance(MedianOf(SortedColumn([i \in 1..Len(t) |-> t[i].Balance])))
DefaultPredProducts(t) == SetMin(prod_options(t))
DefaultPredGender(t) == t[1].Gender
DefaultPredGeo(t) == t[1].Geography

\* values of the prediction widgets tried by the user, besides the defaults
PredAges == {40}
PredBalances == {50000, 154014}
\* app.py:627: a slider between the table's age bounds
PredAgePositions(t) ==
    {v \in PredAges \cup {DefaultPredAge(t)} : min_age(t) <= v /\ v <= max_age(t)}
\* app.py:632: a number between 0 and int(max balance)
PredBalancePositions(t) ==
    {v \in PredBalances \cup {DefaultPredBalance(t)} : 0 <= v /\ v <= max_bal(t)}

\* the prediction widgets as the handler reads them
PredInput(a, b, p, act, g, c) ==
    [age |-> a, balance |-> b, products |-> p, active |-> act, gender |-> g,
     geo |-> c]

-----------------------------------------------------------------------------
(* One run of the script *)

\* the body of the script below the sidebar, from the widget values of the
\* run (the primed widget variables)
RunScript ==
    /\ filtered_df' = ApplyFilters(df', fr', de', es', active_only', male',
                                   female', age_range', balance_range',
                                   products_sel')
    /\ total_customers' = TotalCustomers(filtered_df')
    /\ churned_customers' = ChurnedCustomers(filtered_df')
    /\ churn_rate' = ChurnRate(filtered_df')

\* the series drawn by the charts of the run, app.py:413-586
churn_by_age == get_churn_by_age(filtered_df)
counts_age == CountsAge(filtered_df)
churn_by_balance == get_churn_by_balance(filtered_df)
counts_balance == CountsBalance(filtered_df)
geo_churn == get_geo_churn(filtered_df)
counts_geo == CountsGeo(filtered_df)
gender_churn == get_gender_churn(filtered_df)
counts_gender == CountsGender(filtered_df)
active_churn == get_active_churn(filtered_df)
counts_active == CountsActive(filtered_df)
ActiveChart == ActivePie(filtered_df)
AgeChart == AgeBars(filtered_df)
BalanceChart == BalancePoints(filtered_df)
\* app.py:363: the file offered by the download button
csv == convert_df_to_csv(Frame(filtered_df))

\* a rerun caused by a sidebar widget: the Predict button reads False
Rerun ==
    /\ HasTable /\ ~rerun_requested
    /\ UNCHANGED <<rerun_requested, source>>
    /\ interactions < MaxInteractions
    /\ interactions' = interactions + 1
    /\ df' = df
    /\ UNCHANGED pred_widgets
    /\ RunScript
    /\ pred' = <<>>

\* a rerun caused by a widget of the Predictions tab other than the button
RerunPredictions ==
    /\ HasTable /\ ~rerun_requested
    /\ UNCHANGED <<rerun_requested, source>>
    /\ UNCHANGED interactions
    /\ df' = df
    /\ UNCHANGED widgets
    /\ RunScript
    /\ pred' = <<>>

\* first run on the table t: every widget has its default value
FirstRun(t) ==
    /\ df = t
    /\ fr = TRUE /\ de = TRUE /\ es = TRUE
    /\ active_only = FALSE
    /\ male = TRUE /\ female = TRUE
    /\ age_range = DefaultAgeRange(df)
    /\ balance_range = DefaultBalanceRange(df)
    /\ products_sel = prod_options(df)
    /\ filtered_df = ApplyFilters(df, fr, de, es, active_only, male, female,
                                  age_range, balance_range, products_sel)
    /\ total_customers = TotalCustomers(filtered_df)
    /\ churned_customers = ChurnedCustomers(filtered_df)
    /\ churn_rate = ChurnRate(filtered_df)
    /\ uploaded_model = [kind |-> "none", out |-> 0]
    /\ pred_age = DefaultPredAge(df)
    /\ pred_balance = DefaultPredBalance(df)
    /\ pred_products = DefaultPredProducts(df)
    /\ pred_active = TRUE
    /\ pred_gender = DefaultPredGender(df)
    /\ pred_geo = DefaultPredGeo(df)
    /\ pred = <<>>
    /\ interactions = 0
    /\ rerun_requested = FALSE

\* The sessions in which Churn_Modelling.csv is read: the table comes from
\* load_data_from_path, which is cached (app.py:124-126), and is the same in
\* every run.
Init ==
    /\ source = "file"
    /\ \E t \in TablesInProfileOrder : FirstRun(load_data(<<t>>, NoUpload).table)

\* the same sessions, from every file order
InitAnyOrder ==
    /\ source = "file"
    /\ \E t \in Tables : FirstRun(load_data(<<t>>, NoUpload).table)

\* a run that ended before line 138: there is no table, no widget other than
\* the uploader was called and nothing was computed; df is <<>> and the
\* other variables hold no value of the script
NoTable ==
    /\ df = <<>>
    /\ fr = TRUE /\ de = TRUE /\ es = TRUE
    /\ active_only = FALSE
    /\ male = TRUE /\ female = TRUE
    /\ age_range = <<0, 0>>
    /\ balance_range = <<0, 0>>
    /\ products_sel = {}
    /\ filtered_df = <<>>
    /\ total_customers = 0
    /\ churned_customers = 0
    /\ churn_rate = 0
    /\ uploaded_model = [kind |-> "none", out |-> 0]
    /\ pred_age = 0
    /\ pred_balance = 0
    /\ pred_products = 0
    /\ pred_active = TRUE
    /\ pred_gender = ""
    /\ pred_geo = ""
    /\ pred = <<>>

\* The first run when Churn_Modelling.csv cannot be read: nothing is
\* uploaded yet, the run shows the error and ends at st.stop()
\* (app.py:133-135).
Stopped ==
    /\ load_data(<<>>, NoUpload).exit = "stop"
    /\ source = "none"
    /\ NoTable
    /\ interactions = 0
    /\ rerun_requested = FALSE

\* every session: the file is read, or it is missing
InitSession ==
    \/ Init
    \/ Stopped

-----------------------------------------------------------------------------
(* User interactions *)

ToggleFrance ==
    /\ fr' = ~fr
    /\ UNCHANGED <<de, es, active_only, male, female, age_range, balance_range,
                   products_sel>>
    /\ Rerun

ToggleGermany ==
    /\ de' = ~de
    /\ UNCHANGED <<fr, es, active_only, male, female, age_range, balance_range,
                   products_sel>>
    /\ Rerun

ToggleSpain ==
    /\ es' = ~es
    /\ UNCHANGED <<fr, de, active_only, male, female, age_range, balance_range,
                   products_sel>>
    /\ Rerun

ToggleActiveOnly ==
    /\ active_only' = ~active_only
    /\ UNCHANGED <<fr, de, es, male, female, age_range, balance_range,
                   products_sel>>
    /\ Rerun

ToggleMale ==
    /\ male' = ~male
    /\ UNCHANGED <<fr, de, es, active_only, female, age_range, balance_range,
                   products_sel>>
    /\ Rerun

ToggleFemale ==
    /\ female' = ~female
    /\ UNCHANGED <<fr, de, es, active_only, male, age_range, balance_range,
                   products_sel>>
    /\ Rerun

\* the age slider is moved to another pair lo <= hi
SetAgeRange ==
    /\ HasTable
    /\ \E lo \in AgePositions(df), hi \in AgePositions(df) :
          /\ lo <= hi
          /\ <<lo, hi>> # age_range
          /\ age_range' = <<lo, hi>>
    /\ UNCHANGED <<fr, de, es, active_only, male, female, balance_range,
                   products_sel>>
    /\ Rerun

\* the balance slider is moved to another pair lo <= hi
SetBalanceRange ==
    /\ HasTable
    /\ \E lo \in BalancePositions(df), hi \in BalancePositions(df) :
          /\ lo <= hi
          /\ <<lo, hi>> # balance_range
          /\ balance_range' = <<lo, hi>>
    /\ UNCHANGED <<fr, de, es, active_only, male, female, age_range,
                   products_sel>>
    /\ Rerun

\* the product multiselect is changed to another subset of its options
SetProducts ==
    /\ HasTable
    /\ \E ps \in SUBSET prod_options(df) :
          /\ ps # products_sel
          /\ products_sel' = ps
    /\ UNCHANGED <<fr, de, es, active_only, male, female, age_range,
                   balance_range>>
    /\ Rerun

\* a file is put in, or taken out of, the model uploader
UploadModel ==
    /\ \E artifact \in Artifacts :
          /\ artifact # uploaded_model
          /\ uploaded_model' = artifact
    /\ UNCHANGED <<pred_age, pred_balance, pred_products, pred_active,
                   pred_gender, pred_geo>>
    /\ RerunPredictions

SetPredAge ==
    /\ \E v \in PredAgePositions(df) : v # pred_age /\ pred_age' = v
    /\ UNCHANGED <<uploaded_model, pred_balance, pred_products, pred_active,
                   pred_gender, pred_geo>>
    /\ RerunPredictions

SetPredBalance ==
    /\ \E v \in PredBalancePositions(df) : v # pred_balance /\ pred_balance' = v
    /\ UNCHANGED <<uploaded_model, pred_age, pred_products, pred_active,
                   pred_gender, pred_geo>>
    /\ RerunPredictions

SetPredProducts ==
    /\ \E v \in prod_options(df) : v # pred_products /\ pred_products' = v
    /\ UNCHANGED <<uploaded_model, pred_age, pred_balance, pred_active,
                   pred_gender, pred_geo>>
    /\ RerunPredictions

TogglePredActive ==
    /\ pred_active' = ~pred_active
    /\ UNCHANGED <<uploaded_model, pred_age, pred_balance, pred_products,
                   pred_gender, pred_geo>>
    /\ RerunPredictions

SetPredGender ==
    /\ \E v \in {df[i].Gender : i \in 1..Len(df)} :
          v # pred_gender /\ pred_gender' = v
    /\ UNCHANGED <<uploaded_model, pred_age, pred_balance, pred_products,
                   pred_active, pred_geo>>
    /\ RerunPredictions

SetPredGeo ==
    /\ \E v \in {df[i].Geography : i \in 1..Len(df)} :
          v # pred_geo /\ pred_geo' = v
    /\ UNCHANGED <<uploaded_model, pred_age, pred_balance, pred_products,
                   pred_active, pred_gender>>
    /\ RerunPredictions

\* the Predict button is pressed: the script reruns with every widget as it
\* is, and the handler of app.py:645-682 runs
Predict ==
    /\ HasTable /\ ~rerun_requested
    /\ UNCHANGED <<rerun_requested, source>>
    /\ UNCHANGED interactions
    /\ df' = df
    /\ UNCHANGED widgets
    /\ UNCHANGED pred_widgets
    /\ RunScript
    /\ pred' = <<PredictChurn(PredInput(pred_age, pred_balance, pred_products,
                                        pred_active, pred_gender, pred_geo),
                              uploaded_model)>>

Next ==
    \/ ToggleFrance
    \/ ToggleGermany
    \/ ToggleSpain
    \/ ToggleActiveOnly
    \/ ToggleMale
    \/ ToggleFemale
    \/ SetAgeRange
    \/ SetBalanceRange
    \/ SetProducts

\* a session at the sidebar
Spec == Init /\ [][Next]_vars

\* a session at the Predictions tab: the handler reads no sidebar widget, and
\* the sidebar code reads no prediction widget
NextPredict ==
    \/ UploadModel
    \/ SetPredAge
    \/ SetPredBalance
    \/ SetPredProducts
    \/ TogglePredActive
    \/ SetPredGender
    \/ SetPredGeo
    \/ Predict
SpecPredict == InitAnyOrder /\ [][NextPredict]_vars

-----------------------------------------------------------------------------
(* The filter chain on ranges the sliders do not give.  Both sliders keep
   lo <= hi inside the column's bounds; the chain of app.py:305-332 itself
   takes any pair. *)

\* a pair with its bounds the wrong way round
MalformedAgeRanges(t) ==
    {p \in AgePositions(t) \X AgePositions(t) : p[1] > p[2]}
MalformedBalanceRanges(t) ==
    {p \in BalancePositions(t) \X BalancePositions(t) : p[1] > p[2]}

\* a pair below, and a pair above, every value of the column
OutsideAgeRanges(t) ==
    {<<min_age(t) - 2, min_age(t) - 1>>, <<max_age(t) + 1, max_age(t) + 2>>}
OutsideBalanceRanges(t) ==
    {<<min_bal(t) - 2 * BalanceStep, min_bal(t) - BalanceStep>>,
     <<max_bal(t) + BalanceStep, max_bal(t) + 2 * BalanceStep>>}

\* app.py:306-332 run with such an age range
FilterWithAgeRange ==
    /\ \E ar \in MalformedAgeRanges(df) \cup OutsideAgeRanges(df) :
          /\ ar # age_range
          /\ age_range' = ar
    /\ UNCHANGED <<fr, de, es, active_only, male, female, balance_range,
                   products_sel>>
    /\ Rerun

\* app.py:314-332 run with such a balance range
FilterWithBalanceRange ==
    /\ \E br \in MalformedBalanceRanges(df) \cup OutsideBalanceRanges(df) :
          /\ br # balance_range
          /\ balance_range' = br
    /\ UNCHANGED <<fr, de, es, active_only, male, female, age_range,
                   products_sel>>
    /\ Rerun

NextFilter ==
    \/ Next
    \/ FilterWithAgeRange
    \/ FilterWithBalanceRange

\* the filter chain and the metrics on any criteria
SpecFilter == Init /\ [][NextFilter]_vars

-----------------------------------------------------------------------------
(* RESET FILTERS, app.py:250-251 *)

\* The button is pressed.  The run the press causes calls the widgets above
\* the button (fr, de, es, the chart checkboxes, active_only), reads the
\* button True and ends at st.rerun(): it calls no widget below the button,
\* builds no filtered table and shows no metric, so what the page shows is
\* still the last complete run's.  A widget that a run did not call loses
\* its state when the run ends: each of these variables holds the value the
\* widget gives the next run that calls it, its default.
PressReset ==
    /\ HasTable /\ ~rerun_requested
    /\ UNCHANGED source
    /\ rerun_requested' = TRUE
    /\ interactions < MaxInteractions
    /\ interactions' = interactions + 1
    /\ UNCHANGED <<fr, de, es, active_only>>
    /\ male' = TRUE /\ female' = TRUE
    /\ age_range' = DefaultAgeRange(df)
    /\ balance_range' = DefaultBalanceRange(df)
    /\ products_sel' = prod_options(df)
    /\ uploaded_model' = [kind |-> "none", out |-> 0]
    /\ pred_age' = DefaultPredAge(df)
    /\ pred_balance' = DefaultPredBalance(df)
    /\ pred_products' = DefaultPredProducts(df)
    /\ pred_active' = TRUE
    /\ pred_gender' = DefaultPredGender(df)
    /\ pred_geo' = DefaultPredGeo(df)
    /\ UNCHANGED <<df, outputs, pred>>

\* the run st.rerun() asked for: the whole script, the button reading False
RunAfterReset ==
    /\ rerun_requested
    /\ UNCHANGED source
    /\ rerun_requested' = FALSE
    /\ UNCHANGED <<df, widgets, pred_widgets, interactions>>
    /\ RunScript
    /\ pred' = <<>>

\* A file is put in the uploader of a session without a table and read_csv
\* reads it: the run goes on with the table (app.py:136).  The run before
\* called no widget but the uploader, so every widget has its default value
\* on this table.
Upload ==
    /\ source \in {"none", "raised"}
    /\ source' = "upload"
    /\ \E t \in TablesInProfileOrder :
          /\ load_data(<<>>, UploadOf(t)).exit = "return"
          /\ df' = load_data(<<>>, UploadOf(t)).table
    /\ fr' = TRUE /\ de' = TRUE /\ es' = TRUE
    /\ active_only' = FALSE
    /\ male' = TRUE /\ female' = TRUE
    /\ age_range' = DefaultAgeRange(df')
    /\ balance_range' = DefaultBalanceRange(df')
    /\ products_sel' = prod_options(df')
    /\ uploaded_model' = [kind |-> "none", out |-> 0]
    /\ pred_age' = DefaultPredAge(df')
    /\ pred_balance' = DefaultPredBalance(df')
    /\ pred_products' = DefaultPredProducts(df')
    /\ pred_active' = TRUE
    /\ pred_gender' = DefaultPredGender(df')
    /\ pred_geo' = DefaultPredGeo(df')
    /\ RunScript
    /\ pred' = <<>>
    /\ UNCHANGED <<interactions, rerun_requested>>

\* a run ends before line 138: NoTable holds after it
EndWithoutTable ==
    /\ df' = <<>>
    /\ fr' = TRUE /\ de' = TRUE /\ es' = TRUE
    /\ active_only' = FALSE
    /\ male' = TRUE /\ female' = TRUE
    /\ age_range' = <<0, 0>>
    /\ balance_range' = <<0, 0>>
    /\ products_sel' = {}
    /\ filtered_df' = <<>>
    /\ total_customers' = 0
    /\ churned_customers' = 0
    /\ churn_rate' = 0
    /\ uploaded_model' = [kind |-> "none", out |-> 0]
    /\ pred_age' = 0
    /\ pred_balance' = 0
    /\ pred_products' = 0
    /\ pred_active' = TRUE
    /\ pred_gender' = ""
    /\ pred_geo' = ""
    /\ pred' = <<>>

\* A file read_csv cannot read is put in the uploader of a stopped session:
\* the run ends with the exception of line 136, without a table.
UploadUnreadable ==
    /\ source = "none"
    /\ load_data(<<>>, UnreadableUpload).exit = "raise"
    /\ source' = "raised"
    /\ EndWithoutTable
    /\ UNCHANGED <<interactions, rerun_requested>>

\* The file is taken out of the uploader: the run ends at st.stop() as the
\* first run of a session without a file does.
RemoveUpload ==
    /\ source \in {"upload", "raised"} /\ ~rerun_requested
    /\ load_data(<<>>, NoUpload).exit = "stop"
    /\ source' = "none"
    /\ EndWithoutTable
    /\ UNCHANGED <<interactions, rerun_requested>>

\* The sessions with the runs that end early: at st.rerun() after a press of
\* RESET FILTERS, at st.stop() while there is no table.  (A file put in the
\* uploader in place of another without taking the first out is not among
\* the steps.)
NextSession ==
    \/ Next
    \/ PressReset
    \/ RunAfterReset
    \/ Upload
    \/ UploadUnreadable
    \/ RemoveUpload

SpecSession == InitSession /\ [][NextSession]_vars

-----------------------------------------------------------------------------
(* The filter criteria as the specification states them *)

\* the geographies and genders ticked in the sidebar
SelectedGeographies ==
    {g \in Range(GeographyLabels) :
        \/ g = "France" /\ fr
        \/ g = "Germany" /\ de
        \/ g = "Spain" /\ es}
SelectedGenders ==
    {g \in Range(GenderLabels) : (g = "Male" /\ male) \/ (g = "Female" /\ female)}

\* the six predicates of the Filter Engine; an empty inclusion set is no
\* constraint
PassGeography(r) == SelectedGeographies = {} \/ r.Geography \in SelectedGeographies
PassGender(r) == SelectedGenders = {} \/ r.Gender \in SelectedGenders
PassActive(r) == active_only => r.IsActiveMember = 1
PassAge(r) == age_range[1] <= r.Age /\ r.Age <= age_range[2]
PassBalance(r) ==
    /\ balance_range[1] * BalScale <= r.Balance
    /\ r.Balance <= balance_range[2] * BalScale
PassProducts(r) == products_sel = {} \/ r.NumOfProducts \in products_sel

\* every widget of the sidebar has the value of the first run
DefaultCriteria ==
    /\ fr /\ de /\ es
    /\ ~active_only
    /\ male /\ female
    /\ age_range = <<min_age(df), max_age(df)>>
    /\ balance_range = <<min_bal(df), max_bal(df)>>
    /\ products_sel = prod_options(df)

-----------------------------------------------------------------------------
(* C1 *)

\* C1: with the default criteria (every geography, gender and product count,
\* active-only off, the ranges at int(min), int(max) of the column) the
\* filtered table is the loaded table, row for row.
C1_DefaultCriteriaKeepEveryRow ==
    DefaultCriteria => filtered_df = df

-----------------------------------------------------------------------------
(* C2 *)

\* the bins as the specification states them, the lowest closed on the left:
\* bin i of a value at or above the lowest edge
SpecBin(v, bins) ==
    IF v = bins[1] THEN 1 ELSE Cardinality({i \in 1..Len(bins) : bins[i] < v})

\* the number of entries of the column col whose value is in bin i as stated
SpecBinCount(col, bins, i) ==
    Cardinality({j \in 1..Len(col) :
                    col[j] >= bins[1] /\ SpecBin(col[j], bins) = i})

\* C2: every record at or above the lowest bin start is counted in exactly
\* one bin, the lowest bin closed on the left: the count of every age bin and
\* of every balance bin is the number of filtered records in [18,25],
\* (25,35], ... and in [0,50000], (50000,100000], ...; a bin holding a record
\* is reported by get_churn_by_age / get_churn_by_balance.
C2_LowestBinClosedOnTheLeft ==
    /\ \A i \in 1..Len(AgeLabels) :
          /\ counts_age[i].value = SpecBinCount(Col(filtered_df, "Age"), AgeBins, i)
          /\ SpecBinCount(Col(filtered_df, "Age"), AgeBins, i) > 0
                => AgeLabels[i] \in Range(Index(churn_by_age))
    /\ \A i \in 1..Len(BalanceLabels) :
          /\ counts_balance[i].value
                = SpecBinCount(Col(filtered_df, "Balance"), BalanceBins, i)
          /\ SpecBinCount(Col(filtered_df, "Balance"), BalanceBins, i) > 0
                => BalanceLabels[i] \in Range(Index(churn_by_balance))

-----------------------------------------------------------------------------
(* C3 *)

\* C3: an empty selection in one categorical dimension is no constraint in
\* that dimension: with no geography ticked the filtered table is the rows
\* passing the five other predicates, whatever their geography, and likewise
\* with no gender ticked and with no product count selected.
C3_EmptySelectionIsNoConstraint ==
    /\ (~fr /\ ~de /\ ~es) =>
          filtered_df = SelectSeq(df, LAMBDA r :
              PassGender(r) /\ PassActive(r) /\ PassAge(r) /\ PassBalance(r)
              /\ PassProducts(r))
    /\ (~male /\ ~female) =>
          filtered_df = SelectSeq(df, LAMBDA r :
              PassGeography(r) /\ PassActive(r) /\ PassAge(r) /\ PassBalance(r)
              /\ PassProducts(r))
    /\ products_sel = {} =>
          filtered_df = SelectSeq(df, LAMBDA r :
              PassGeography(r) /\ PassGender(r) /\ PassActive(r) /\ PassAge(r)
              /\ PassBalance(r))

\* no geography is ticked and rows of two geographies are kept
C3_Witness ==
    /\ ~fr /\ ~de /\ ~es
    /\ Cardinality({filtered_df[i].Geography : i \in 1..Len(filtered_df)}) >= 2

-----------------------------------------------------------------------------
(* C4 *)

\* C4: the filtered table is the subsequence of the loaded table made of the
\* rows that satisfy all six predicates: none is missing, none is extra, the
\* order and the field values are those of the loaded table.
C4_FilteredIsConjunctionOfPredicates ==
    filtered_df = SelectSeq(df, LAMBDA r :
        PassGeography(r) /\ PassGender(r) /\ PassActive(r) /\ PassAge(r)
        /\ PassBalance(r) /\ PassProducts(r))

\* only Germany is ticked, the table has a German row and another one, and
\* the German rows are what is kept
C4_Witness ==
    /\ ~fr /\ de /\ ~es
    /\ \E i \in 1..Len(df) : df[i].Geography = "Germany"
    /\ \E i \in 1..Len(df) : df[i].Geography # "Germany"
    /\ filtered_df # <<>>
    /\ \A i \in 1..Len(filtered_df) : filtered_df[i].Geography = "Germany"

-----------------------------------------------------------------------------
(* C5 *)

\* rows that pass the four predicates other than the two ranges
PassCategorical(r) ==
    PassGeography(r) /\ PassGender(r) /\ PassActive(r) /\ PassProducts(r)

\* C5: the age and balance ranges are inclusive at both ends: a row passing
\* the other predicates is kept if and only if lo <= Age <= hi and
\* lo <= Balance <= hi for the selected bounds.
C5_RangesAreInclusive ==
    \A i \in 1..Len(df) :
        PassCategorical(df[i]) =>
            ( df[i] \in Range(filtered_df)
              <=> /\ age_range[1] <= df[i].Age /\ df[i].Age <= age_range[2]
                  /\ balance_range[1] * BalScale <= df[i].Balance
                  /\ df[i].Balance <= balance_range[2] * BalScale )

\* the age slider was moved; a kept row has its age on the selected lower
\* bound and its balance on the selected upper bound, and a row is excluded
\* by the age range alone
C5_Witness ==
    /\ age_range # <<min_age(df), max_age(df)>>
    /\ \E i \in 1..Len(filtered_df) :
          /\ filtered_df[i].Age = age_range[1]
          /\ filtered_df[i].Balance = balance_range[2] * BalScale
    /\ \E i \in 1..Len(df) :
          /\ PassCategorical(df[i]) /\ PassBalance(df[i])
          /\ df[i].Age < age_range[1]

-----------------------------------------------------------------------------
(* C6 *)

\* a rate is a percentage between 0 and 100
IsPercentage(f) == f.den > 0 /\ 0 <= f.num /\ f.num <= 100 * f.den

\* every entry of a series is a percentage, and is 0 when no filtered row has
\* the entry's label in the grouping column keys
SeriesRatesOk(series, keys) ==
    \A j \in 1..Len(series) :
        /\ IsPercentage(series[j].value)
        /\ (\A i \in 1..Len(keys) : keys[i] # series[j].label)
              => series[j].value.num = 0

\* C6: every reported churn rate is a percentage in [0, 100] and is 0 when
\* its group has no records: the KPI churn_rate and every entry of the
\* geography, gender, product, active-status, age-bin and balance-bin series.
C6_RatesArePercentages ==
    /\ IsPercentage(churn_rate)
    /\ (total_customers = 0 => churn_rate.num = 0)
    /\ SeriesRatesOk(geo_churn, Col(filtered_df, "Geography"))
    /\ SeriesRatesOk(gender_churn, Col(filtered_df, "Gender"))
    /\ SeriesRatesOk(get_product_churn(filtered_df),
                     Col(filtered_df, "NumOfProducts"))
    /\ SeriesRatesOk(active_churn, Col(filtered_df, "IsActiveMember"))
    /\ SeriesRatesOk(churn_by_age, AgeGroup(filtered_df))
    /\ SeriesRatesOk(churn_by_balance, BalanceGroup(filtered_df))

\* active-only is on and leaves no row: the KPI rate and both active-status
\* rates are 0
C6_Witness ==
    /\ active_only
    /\ filtered_df = <<>>
    /\ total_customers = 0
    /\ churn_rate.num = 0
    /\ Len(active_churn) = 2
    /\ active_churn[1].value.num = 0 /\ active_churn[2].value.num = 0

-----------------------------------------------------------------------------
(* C7 *)

\* the filtered rows with the given IsActiveMember value
ActiveRows(a) == SelectSeq(filtered_df, LAMBDA r : r.IsActiveMember = a)

\* the fraction f is churned / size * 100 of the table g
IsChurnRateOf(f, g) ==
    IF Len(g) = 0 THEN f.num = 0 /\ f.den > 0
    ELSE f.den > 0
         /\ f.num * Len(g)
               = 100 * Cardinality({i \in 1..Len(g) : g[i].Exited = 1}) * f.den

\* C7: the active-status chart always has exactly the two canonical
\* categories, Inactive then Active; Inactive carries the rate and the count
\* of the rows with IsActiveMember = 0, Active those with IsActiveMember = 1,
\* and a category without rows has rate 0 and count 0.
C7_ActiveStatusHasBothCategories ==
    /\ Index(active_churn) = <<0, 1>>
    /\ Len(ActiveChart) = 2
    /\ ActiveChart[1].label = "Inactive" /\ ActiveChart[2].label = "Active"
    /\ \A j \in 1..Len(ActiveChart) :
          /\ ActiveChart[j].count = Len(ActiveRows(j - 1))
          /\ IsChurnRateOf(ActiveChart[j].rate, ActiveRows(j - 1))

\* active-only is on and active rows are kept: Inactive is reported with
\* rate 0 and count 0, Active with a positive rate
C7_Witness ==
    /\ active_only
    /\ filtered_df # <<>>
    /\ ActiveChart[1].label = "Inactive"
    /\ ActiveChart[1].count = 0 /\ ActiveChart[1].rate.num = 0
    /\ ActiveChart[2].count > 0 /\ ActiveChart[2].rate.num > 0

-----------------------------------------------------------------------------
(* C8 *)

RECURSIVE SumValues(_)
SumValues(series) ==
    IF series = <<>> THEN 0
    ELSE series[1].value + SumValues(Tail(series))

\* every entry of the column keys is the label of exactly one entry of the
\* series
CountedOnce(series, keys) ==
    \A i \in 1..Len(keys) :
        Cardinality({j \in 1..Len(series) : series[j].label = keys[i]}) = 1

\* C8: in the geography, gender and active-status charts every filtered row
\* is counted in exactly one reported category, so the counts of each chart
\* add up to the number of filtered rows.
C8_CountsAddUpToTheFilteredRows ==
    /\ CountedOnce(counts_geo, Col(filtered_df, "Geography"))
    /\ SumValues(counts_geo) = Len(filtered_df)
    /\ CountedOnce(counts_gender, Col(filtered_df, "Gender"))
    /\ SumValues(counts_gender) = Len(filtered_df)
    /\ CountedOnce(counts_active,
                   [i \in 1..Len(filtered_df) |->
                       IF filtered_df[i].IsActiveMember = 1 THEN "Active"
                       ELSE "Inactive"])
    /\ SumValues(counts_active) = Len(filtered_df)

\* rows of two geographies, of both genders and of both activity values are
\* kept
C8_Witness ==
    /\ Len(counts_geo) = 2
    /\ Len(counts_gender) = 2
    /\ counts_active[1].value > 0 /\ counts_active[2].value > 0
    /\ interactions > 0

-----------------------------------------------------------------------------
(* C9 *)

\* the filtered rows whose age is in (AgeBins[i], AgeBins[i+1]], the last bin
\* open above
AgeIntervalRows(i) ==
    SelectSeq(filtered_df, LAMBDA r :
        /\ AgeBins[i] < r.Age
        /\ (i = Len(AgeBins) \/ r.Age <= AgeBins[i + 1]))

\* C9: a bin includes its upper edge and excludes its lower one (age 25 is in
\* "18-25", age 26 in "26-35"): the count of a bin is the number of filtered
\* rows in (lo, hi], and its rate is churned / size * 100 over those rows.
\* A row on the lowest edge (age 18) is the subject of C2: the first bin is
\* compared when no filtered row is of that age.
C9_BinsIncludeTheirUpperEdge ==
    \A i \in 1..Len(AgeLabels) :
        (i = 1 => \A k \in 1..Len(filtered_df) : filtered_df[k].Age # AgeBins[1])
        => /\ counts_age[i].label = AgeLabels[i]
           /\ counts_age[i].value = Len(AgeIntervalRows(i))
           /\ AgeIntervalRows(i) # <<>> =>
                 \E j \in 1..Len(churn_by_age) :
                    /\ churn_by_age[j].label = AgeLabels[i]
                    /\ IsChurnRateOf(churn_by_age[j].value, AgeIntervalRows(i))

\* two rows of age 30, one of them exited: bin "26-35" has rate 50 and count 2
C9_Witness ==
    /\ Len(filtered_df) = 2
    /\ filtered_df[1].Age = 30 /\ filtered_df[2].Age = 30
    /\ filtered_df[1].Exited + filtered_df[2].Exited = 1
    /\ churn_by_age = <<Entry("26-35", Frac(100, 2))>>
    /\ counts_age[2] = Entry("26-35", 2)

-----------------------------------------------------------------------------
(* C10 *)

\* the tuple of the fallback scoring example
ExampleInput == PredInput(40, 50000, 1, TRUE, "Female", "France")

\* the Predict handler ran on the example tuple and used the heuristic
ExampleScored ==
    /\ pred # <<>>
    /\ pred[1].fallback
    /\ pred[1].input = ExampleInput

\* C10 as stated: the fallback score of (age 40, balance 50000, 1 product,
\* active, Female, France) is 0 and the probability is 0.5.
C10_ExampleScoreIsZero ==
    ExampleScored => pred[1].score = <<0>> /\ 2 * pred[1].prob = ProbScale

\* C10 as amended: the fallback score of that tuple is -0.1 (the term of an
\* active member subtracts 0.1, every other term is 0), and the probability
\* is 1 / (1 + e^0.1), 0.475 to three decimals, below 0.5.
C10_ExampleScoreIsMinusOneTenth ==
    ExampleScored =>
        /\ 10 * pred[1].score[1] = -ScoreScale
        /\ 1000 * pred[1].prob = 475 * ProbScale

\* the example tuple was scored by the heuristic, no artifact uploaded
C10_Witness ==
    /\ ExampleScored
    /\ pred[1].artifact = "none"

-----------------------------------------------------------------------------
(* C11 *)

\* the Predict handler ran in the run that produced the state
Predicted == pred # <<>>

\* the artifact of the uploader failed: it cannot be unpickled, or both of its
\* calls raise
ArtifactFailed == uploaded_model.kind \in {"unpickle", "raises"}

\* the heuristic applied to the prediction widgets
WidgetScore ==
    HeuristicScore(pred_age, pred_balance, pred_products, pred_active,
                   pred_gender, pred_geo)

\* C11: whenever the Predict handler ran, it produced a probability in [0, 1];
\* it used the closed-form fallback exactly when no artifact was uploaded or
\* the artifact failed, and then the probability is the logistic of the
\* heuristic score of the widgets; a failure of the artifact is reported and
\* does not stop the handler; a working artifact's output is the probability,
\* clamped.
C11_ArtifactFailureFallsBack ==
    Predicted =>
        /\ pred[1].prob \in 0..ProbScale
        /\ pred[1].fallback <=> (uploaded_model.kind = "none" \/ ArtifactFailed)
        /\ pred[1].error <=> ArtifactFailed
        /\ pred[1].fallback =>
              /\ pred[1].score = <<WidgetScore>>
              /\ pred[1].prob = Clamp(Logistic(WidgetScore))
        /\ ~pred[1].fallback =>
              /\ pred[1].score = <<>>
              /\ pred[1].prob = Clamp(uploaded_model.out)

\* Predict was pressed with an artifact whose two calls raise, for an inactive
\* customer: the failure is reported and the heuristic gave the probability
C11_Witness ==
    /\ Predicted
    /\ uploaded_model.kind = "raises"
    /\ ~pred_active
    /\ pred[1].error
    /\ pred[1].fallback
    /\ pred[1].prob > 0

-----------------------------------------------------------------------------
(* C12 *)

\* the six aggregation functions
Aggregations == {"age", "balance", "geo", "product", "gender", "active"}

\* the caller's frame after one call of an aggregation on it
AfterCall(name, t) ==
    CASE name = "age" -> get_churn_by_age_heap(t)[1]
      [] name = "balance" -> get_churn_by_balance_heap(t)[1]
      [] name = "geo" -> get_geo_churn_heap(t)[1]
      [] name = "product" -> get_product_churn_heap(t)[1]
      [] name = "gender" -> get_gender_churn_heap(t)[1]
      [] name = "active" -> get_active_churn_heap(t)[1]

\* the rows of the loaded table that no predicate excludes
NonExcluded ==
    SelectSeq(df, LAMBDA r :
        PassGeography(r) /\ PassGender(r) /\ PassActive(r) /\ PassAge(r)
        /\ PassBalance(r) /\ PassProducts(r))

\* the filtered table is as the filters left it after any one aggregation and
\* after any two in a row (the same twice, or two in either order), so after
\* any number of calls in any order; the export has the loaded columns and
\* the values of the non-excluded rows
FilteredTableUntouched ==
    /\ \A a \in Aggregations :
          AfterCall(a, Frame(filtered_df)) = Frame(filtered_df)
    /\ \A a, b \in Aggregations :
          AfterCall(b, AfterCall(a, Frame(filtered_df))) = Frame(filtered_df)
    /\ \A i \in 1..Len(filtered_df) :
          DOMAIN filtered_df[i] = Range(LoadedColumns)
    /\ csv.header = LoadedColumns
    /\ csv.lines = [i \in 1..Len(NonExcluded) |->
                      [j \in 1..Len(LoadedColumns) |->
                          NonExcluded[i][LoadedColumns[j]]]]

\* C12: no run of the script changes the loaded table, and in every run the
\* aggregations leave the filtered table as the filters built it (rows, row
\* order, columns: no AgeGroup or BalanceGroup column), so the exported file
\* has the loaded table's columns and exactly the non-excluded rows.
C12_NoOperationMutatesItsInput ==
    [](FilteredTableUntouched) /\ [][df' = df]_vars

\* after an interaction the filters excluded a row and kept another, and the
\* age aggregation assigned its AgeGroup column to its copy of the kept rows
C12_Witness ==
    /\ interactions > 0
    /\ filtered_df # <<>>
    /\ Len(filtered_df) < Len(df)
    /\ Len(csv.lines) = Len(filtered_df)
    /\ "AgeGroup" \in
          DOMAIN get_churn_by_age_heap(Frame(filtered_df))[2].rows[1]
    /\ "AgeGroup" \in
          Range(ColumnsOf(get_churn_by_age_heap(Frame(filtered_df))[2]))
    /\ "AgeGroup" \notin DOMAIN filtered_df[1]

-----------------------------------------------------------------------------
(* C13 *)

\* the selected range has its bounds the wrong way round
IsMalformed(range) == range[1] > range[2]

\* the selected range lies wholly below or wholly above the column, or
\* between its values: no value of the column is in it
NoAgeInRange ==
    \A i \in 1..Len(df) : df[i].Age < age_range[1] \/ df[i].Age > age_range[2]
NoBalanceInRange ==
    \A i \in 1..Len(df) :
        \/ df[i].Balance < balance_range[1] * BalScale
        \/ df[i].Balance > balance_range[2] * BalScale

\* C13: when the age range or the balance range is malformed (min > max) or
\* contains no value of the column, the run ends with the empty filtered
\* table, total_customers 0, churned_customers 0 and churn_rate 0.
C13_EmptyOutcomeIsNotAFailure ==
    (IsMalformed(age_range) \/ IsMalformed(balance_range)
     \/ NoAgeInRange \/ NoBalanceInRange) =>
        /\ filtered_df = <<>>
        /\ total_customers = 0
        /\ churned_customers = 0
        /\ churn_rate = Frac(0, 1)

\* the chain ran with a balance range whose bounds are swapped and enclose
\* the balance of a row, the age range holding every age
C13_Witness ==
    /\ IsMalformed(balance_range)
    /\ \E i \in 1..Len(df) :
          /\ df[i].Balance <= balance_range[1] * BalScale
          /\ df[i].Balance >= balance_range[2] * BalScale
    /\ age_range = DefaultAgeRange(df)
    /\ filtered_df = <<>>
    /\ churn_rate = Frac(0, 1)

-----------------------------------------------------------------------------
(* C14 *)

\* the six filters, numbered in the program's order
FilterStages == 1..6

\* one filter of the chain applied to a table, with the criteria of the run
Stage(k, t) ==
    CASE k = 1 -> GeographyFilter(t, fr, de, es)
      [] k = 2 -> ActiveFilter(t, active_only)
      [] k = 3 -> GenderFilter(t, male, female)
      [] k = 4 -> AgeFilter(t, age_range)
      [] k = 5 -> BalanceFilter(t, balance_range)
      [] k = 6 -> ProductFilter(t, products_sel)

\* Every way of applying n different filters to the loaded table, one after
\* the other: the pairs <<filters applied, table obtained>>.  The orders that
\* apply the same filters and obtain the same table are one pair.
RECURSIVE AfterFilters(_)
AfterFilters(n) ==
    IF n = 0 THEN {<<{}, df>>}
    ELSE LET before == AfterFilters(n - 1)
         IN  UNION {{<<p[1] \cup {k}, Stage(k, p[2])>> : k \in FilterStages \ p[1]} :
                    p \in before}

\* C14: applying the six filters to the loaded table in any of the 720
\* orders gives one table, the filtered table of the program (same records,
\* same order).
C14_FilterOrderIsIrrelevant ==
    AfterFilters(6) = {<<FilterStages, filtered_df>>}

\* the geography filter and the age filter each exclude a row the other
\* keeps, after two interactions at least
C14_Witness ==
    /\ interactions >= 2
    /\ Stage(1, df) # df
    /\ Stage(4, df) # df
    /\ Stage(1, df) # Stage(4, df)
    /\ Stage(1, df) # <<>>
    /\ Stage(4, df) # <<>>

-----------------------------------------------------------------------------
(* C15 *)

\* the number of entries of a column of group labels equal to a label
InGroup(groups, label) ==
    Cardinality({i \in 1..Len(groups) : groups[i] = label})

\* C15: in the age chart and in the balance chart the rates and the counts
\* have the same labels at the same positions, and the count drawn with each
\* bin is the number of filtered records in that bin, also when a bin holds
\* no record.
C15_CountsBelongToTheDisplayedBins ==
    /\ Index(churn_by_age) = Index(counts_age)
    /\ Index(churn_by_balance) = Index(counts_balance)
    /\ \A j \in 1..Len(AgeChart) :
          AgeChart[j].count = InGroup(AgeGroup(filtered_df), AgeChart[j].label)
    /\ \A j \in 1..Len(BalanceChart) :
          BalanceChart[j].count =
              InGroup(BalanceGroup(filtered_df), BalanceChart[j].label)

-----------------------------------------------------------------------------
(* C16 *)

\* the filtered table of the first run
FirstLoadFiltered ==
    ApplyFilters(df, TRUE, TRUE, TRUE, FALSE, TRUE, TRUE, DefaultAgeRange(df),
                 DefaultBalanceRange(df), prod_options(df))

\* C16: the run that follows a press of RESET FILTERS, whatever the sidebar
\* widgets held, uses the default criteria (every geography and gender,
\* active-only off, both ranges at the table's bounds, every product count)
\* and so builds the filtered table of the first load.
C16_ResetRestoresTheDefaults ==
    [][RunAfterReset => (DefaultCriteria' /\ filtered_df' = FirstLoadFiltered)]_vars

====
